---- MODULE Spec2Model ----
(***************************************************************************)
(* The error taxonomy of the Kafka client (src/error.rs): the status code  *)
(* catalog, the From adapters that absorb io::Error, openssl and snap      *)
(* failures, the hand-written Clone, and description()/Display.            *)
(*                                                                         *)
(* Text is a sequence of tokens.  A token is either one character (the     *)
(* characters of a topic name, of a decimal number and of the quoting that *)
(* {:?} adds) or a whole literal of the source (a format string fragment,  *)
(* a symbolic name).  TopicChars holds no character that occurs inside a   *)
(* literal token, so containment of token sequences is containment of the  *)
(* rendered strings.                                                       *)
(***************************************************************************)
EXTENDS Integers, Sequences, FiniteSets

VARIABLES
    via,      \* how the value came to be: "none" before, then the adapter or constructor
    input,    \* the foreign failure (or the constructor's arguments) handed in
    first,    \* the Error the adapter or constructor returned
    cur,      \* the Error held now: first, cloned nclones times
    prev,     \* the Error the last clone() was called on
    nclones,  \* the number of clone() calls so far
    out,      \* what Display wrote for cur (<<>> when not rendered)
    label,    \* what description() returned for cur (<<>> when not asked)
    encoded   \* cur's KafkaCode cast to its wire number (<<>> when not cast)

vars == <<via, input, first, cur, prev, nclones, out, label, encoded>>

----
\* Bounds of the model.

\* clone() calls on one value
MaxClones == 3
\* characters in a topic name
MaxTopicLen == 2

----
\* KafkaCode: the catalog and its discriminants.

KafkaCodes ==
    {"Unknown", "OffsetOutOfRange", "CorruptMessage",
     "UnknownTopicOrPartition", "InvalidMessageSize", "LeaderNotAvailable",
     "NotLeaderForPartition", "RequestTimedOut", "BrokerNotAvailable",
     "ReplicaNotAvailable", "MessageSizeTooLarge", "StaleControllerEpoch",
     "OffsetMetadataTooLarge", "NetworkException", "GroupLoadInProgress",
     "GroupCoordinatorNotAvailable", "NotCoordinatorForGroup", "InvalidTopic",
     "RecordListTooLarge", "NotEnoughReplicas", "NotEnoughReplicasAfterAppend",
     "InvalidRequiredAcks", "IllegalGeneration", "InconsistentGroupProtocol",
     "InvalidGroupId", "UnknownMemberId", "InvalidSessionTimeout",
     "RebalanceInProgress", "InvalidCommitOffsetSize", "TopicAuthorizationFailed",
     "GroupAuthorizationFailed", "ClusterAuthorizationFailed", "InvalidTimestamp",
     "UnsupportedSaslMechanism", "IllegalSaslState", "UnsupportedVersion"}

\* Code with IllegalSaslState given UnsupportedSaslMechanism's number.
Code_Renumbered(c) ==
    CASE c = "Unknown" -> -1
      [] c = "OffsetOutOfRange" -> 1
      [] c = "CorruptMessage" -> 2
      [] c = "UnknownTopicOrPartition" -> 3
      [] c = "InvalidMessageSize" -> 4
      [] c = "LeaderNotAvailable" -> 5
      [] c = "NotLeaderForPartition" -> 6
      [] c = "RequestTimedOut" -> 7
      [] c = "BrokerNotAvailable" -> 8
      [] c = "ReplicaNotAvailable" -> 9
      [] c = "MessageSizeTooLarge" -> 10
      [] c = "StaleControllerEpoch" -> 11
      [] c = "OffsetMetadataTooLarge" -> 12
      [] c = "NetworkException" -> 13
      [] c = "GroupLoadInProgress" -> 14
      [] c = "GroupCoordinatorNotAvailable" -> 15
      [] c = "NotCoordinatorForGroup" -> 16
      [] c = "InvalidTopic" -> 17
      [] c = "RecordListTooLarge" -> 18
      [] c = "NotEnoughReplicas" -> 19
      [] c = "NotEnoughReplicasAfterAppend" -> 20
      [] c = "InvalidRequiredAcks" -> 21
      [] c = "IllegalGeneration" -> 22
      [] c = "InconsistentGroupProtocol" -> 23
      [] c = "InvalidGroupId" -> 24
      [] c = "UnknownMemberId" -> 25
      [] c = "InvalidSessionTimeout" -> 26
      [] c = "RebalanceInProgress" -> 27
      [] c = "InvalidCommitOffsetSize" -> 28
      [] c = "TopicAuthorizationFailed" -> 29
      [] c = "GroupAuthorizationFailed" -> 30
      [] c = "ClusterAuthorizationFailed" -> 31
      [] c = "InvalidTimestamp" -> 32
      [] c = "UnsupportedSaslMechanism" -> 33
      [] c = "IllegalSaslState" -> 33
      [] c = "UnsupportedVersion" -> 35

Code(c) ==
    CASE c = "Unknown" -> -1
      [] c = "OffsetOutOfRange" -> 1
      [] c = "CorruptMessage" -> 2
      [] c = "UnknownTopicOrPartition" -> 3
      [] c = "InvalidMessageSize" -> 4
      [] c = "LeaderNotAvailable" -> 5
      [] c = "NotLeaderForPartition" -> 6
      [] c = "RequestTimedOut" -> 7
      [] c = "BrokerNotAvailable" -> 8
      [] c = "ReplicaNotAvailable" -> 9
      [] c = "MessageSizeTooLarge" -> 10
      [] c = "StaleControllerEpoch" -> 11
      [] c = "OffsetMetadataTooLarge" -> 12
      [] c = "NetworkException" -> 13
      [] c = "GroupLoadInProgress" -> 14
      [] c = "GroupCoordinatorNotAvailable" -> 15
      [] c = "NotCoordinatorForGroup" -> 16
      [] c = "InvalidTopic" -> 17
      [] c = "RecordListTooLarge" -> 18
      [] c = "NotEnoughReplicas" -> 19
      [] c = "NotEnoughReplicasAfterAppend" -> 20
      [] c = "InvalidRequiredAcks" -> 21
      [] c = "IllegalGeneration" -> 22
      [] c = "InconsistentGroupProtocol" -> 23
      [] c = "InvalidGroupId" -> 24
      [] c = "UnknownMemberId" -> 25
      [] c = "InvalidSessionTimeout" -> 26
      [] c = "RebalanceInProgress" -> 27
      [] c = "InvalidCommitOffsetSize" -> 28
      [] c = "TopicAuthorizationFailed" -> 29
      [] c = "GroupAuthorizationFailed" -> 30
      [] c = "ClusterAuthorizationFailed" -> 31
      [] c = "InvalidTimestamp" -> 32
      [] c = "UnsupportedSaslMechanism" -> 33
      [] c = "IllegalSaslState" -> 34
      [] c = "UnsupportedVersion" -> 35

\* Numbers the protocol layer may read off the wire: the catalog and its neighbours.
WireCodes == (0 - 3)..38

\* The protocol layer's lookup of a wire number (not part of error.rs): the entry
\* with that discriminant, or Unknown.
Lookup(n) ==
    IF \E c \in KafkaCodes : Code(c) = n
    THEN CHOOSE c \in KafkaCodes : Code(c) = n
    ELSE "Unknown"

----
\* Text helpers.

Digit(d) == <<"0", "1", "2", "3", "4", "5", "6", "7", "8", "9">>[d + 1]

RECURSIVE DecNat(_)
DecNat(n) == IF n < 10 THEN <<Digit(n)>> ELSE DecNat(n \div 10) \o <<Digit(n % 10)>>

\* {} and {:?} of an integer
Dec(n) == IF n < 0 THEN <<"-">> \o DecNat(0 - n) ELSE DecNat(n)

\* {:?} of one character of a str: the quote and the backslash are escaped
EscapeChar(ch) ==
    IF ch = "\"" THEN <<"\\", "\"">>
    ELSE IF ch = "\\" THEN <<"\\", "\\">>
    ELSE <<ch>>

RECURSIVE EscapeStr(_)
EscapeStr(s) == IF s = <<>> THEN <<>> ELSE EscapeChar(Head(s)) \o EscapeStr(Tail(s))

\* {:?} of a String: quoted, its characters escaped
DebugStr(s) == <<"\"">> \o EscapeStr(s) \o <<"\"">>

Contains(hay, needle) ==
    \E i \in 0..(Len(hay) - Len(needle)) : SubSeq(hay, i + 1, i + Len(needle)) = needle

RECURSIVE JoinComma(_)
JoinComma(ss) ==
    IF ss = <<>> THEN <<>>
    ELSE IF Len(ss) = 1 THEN <<ss[1]>>
    ELSE <<ss[1], ", ">> \o JoinComma(Tail(ss))

----
\* std::io::Error: an OS code, a bare kind, or a kind with a boxed message.

IoErrorKinds == {"UnexpectedEof", "WouldBlock", "ConnectionReset", "Other"}
OsCodes == {104, 11}
Msgs == {<<"timed out waiting">>, <<"Io error: ", "boom">>}

OsError(c) == [repr |-> "Os", os |-> c]
SimpleError(k) == [repr |-> "Simple", kind |-> k]
CustomError(k, m) == [repr |-> "Custom", kind |-> k, msg |-> m]

IoErrors ==
    {OsError(c) : c \in OsCodes}
        \cup {SimpleError(k) : k \in IoErrorKinds}
        \cup {CustomError(k, m) : k \in IoErrorKinds, m \in Msgs}

\* sys::decode_error_kind: ECONNRESET and EAGAIN
DecodeErrorKind(c) ==
    IF c = 104 THEN "ConnectionReset" ELSE IF c = 11 THEN "WouldBlock" ELSE "Other"

StrError(c) ==
    IF c = 104 THEN "Connection reset by peer"
    ELSE IF c = 11 THEN "Resource temporarily unavailable"
    ELSE "Unknown error"

KindStr(k) ==
    CASE k = "UnexpectedEof" -> "unexpected end of file"
      [] k = "WouldBlock" -> "operation would block"
      [] k = "ConnectionReset" -> "connection reset"
      [] OTHER -> "other os error"

\* io::Error::kind
IoKind(e) == IF e.repr = "Os" THEN DecodeErrorKind(e.os) ELSE e.kind

\* io::Error::raw_os_error: <<code>> for Some(code), <<>> for None
RawOsError(e) == IF e.repr = "Os" THEN <<e.os>> ELSE <<>>

\* Display of io::Error
IoDisplay(e) ==
    IF e.repr = "Os" THEN <<StrError(e.os), " (os error ">> \o Dec(e.os) \o <<")">>
    ELSE IF e.repr = "Simple" THEN <<KindStr(e.kind)>>
    ELSE e.msg

\* error::Error::description of io::Error
IoDescription(e) == IF e.repr = "Custom" THEN e.msg ELSE <<KindStr(IoKind(e))>>

----
\* openssl::ssl::Error and ssl::HandshakeError.

ErrorStacks == {<<"error:1408F10B">>, <<"error:14090086", "error:0906D06C">>}

SslMarker(t) == [ty |-> t]
SslWithIo(t, e) == [ty |-> t, io |-> e]
SslStack(es) == [ty |-> "Ssl", stack |-> es]

SslIoTypes == {"WantRead", "WantWrite", "Stream"}

SslErrors ==
    {SslMarker(t) : t \in {"ZeroReturn", "WantX509Lookup"}}
        \cup {SslWithIo(t, e) : t \in SslIoTypes, e \in IoErrors}
        \cup {SslStack(es) : es \in ErrorStacks}

\* Failure(e) carries the fault; Interrupted(s) a stream whose error() is the fault
HandshakeErrors == {[hs |-> h, err |-> e] : h \in {"Failure", "Interrupted"}, e \in SslErrors}

SslDescription(e) ==
    CASE e.ty = "ZeroReturn" -> "The SSL session was closed by the other end"
      [] e.ty = "WantRead" -> "A read attempt returned a 'WantRead' error"
      [] e.ty = "WantWrite" -> "A write attempt returned a 'WantWrite' error"
      [] e.ty = "WantX509Lookup" ->
            "The client certificate callback requested to be called again"
      [] e.ty = "Stream" -> "The underlying stream reported an error"
      [] e.ty = "Ssl" -> "The OpenSSL library reported an error"

\* Display of ssl::Error: its description, then ": " and its cause when it has one
SslDisplay(e) ==
    IF e.ty \in SslIoTypes THEN <<SslDescription(e), ": ">> \o IoDisplay(e.io)
    ELSE IF e.ty = "Ssl" THEN <<SslDescription(e), ": ">> \o JoinComma(e.stack)
    ELSE <<SslDescription(e)>>

----
\* snap::Error: plain data.

SnapVals == {9, 12}
SnapBytes == {<<9>>, <<12, 9>>}

SnapErrors ==
    {[ty |-> "TooBig", given |-> a, max |-> b] : a, b \in SnapVals}
        \cup {[ty |-> "BufferTooSmall", given |-> a, min |-> b] : a, b \in SnapVals}
        \cup {[ty |-> "Empty"], [ty |-> "Header"]}
        \cup {[ty |-> "HeaderMismatch", expected_len |-> a, got_len |-> b] : a, b \in SnapVals}
        \cup {[ty |-> "Literal", len |-> a, src_len |-> b, dst_len |-> c] : a, b, c \in SnapVals}
        \cup {[ty |-> "CopyRead", len |-> a, src_len |-> b] : a, b \in SnapVals}
        \cup {[ty |-> "CopyWrite", len |-> a, dst_len |-> b] : a, b \in SnapVals}
        \cup {[ty |-> "Offset", offset |-> a, dst_pos |-> b] : a, b \in SnapVals}
        \cup {[ty |-> "StreamHeader", byte |-> a] : a \in SnapVals}
        \cup {[ty |-> "StreamHeaderMismatch", bytes |-> bs] : bs \in SnapBytes}
        \cup {[ty |-> "UnsupportedChunkType", byte |-> a] : a \in SnapVals}
        \cup {[ty |-> "UnsupportedChunkLength", len |-> a, header |-> h] :
                a \in SnapVals, h \in BOOLEAN}
        \cup {[ty |-> "Checksum", expected |-> a, got |-> b] : a, b \in SnapVals}

RECURSIVE DecBytes(_)
DecBytes(bs) == IF bs = <<>> THEN <<>> ELSE Dec(Head(bs)) \o <<" ">> \o DecBytes(Tail(bs))

SnapDescription(s) ==
    CASE s.ty = "TooBig" -> "snappy: input buffer too big"
      [] s.ty = "BufferTooSmall" -> "snappy: output buffer too small"
      [] s.ty = "Empty" -> "snappy: corrupt input (empty)"
      [] s.ty = "Header" -> "snappy: corrupt input (invalid header)"
      [] s.ty = "HeaderMismatch" -> "snappy: corrupt input (header mismatch)"
      [] s.ty = "Literal" -> "snappy: corrupt input (bad literal)"
      [] s.ty = "CopyRead" -> "snappy: corrupt input (bad copy read)"
      [] s.ty = "CopyWrite" -> "snappy: corrupt input (bad copy write)"
      [] s.ty = "Offset" -> "snappy: corrupt input (bad offset)"
      [] s.ty = "StreamHeader" -> "snappy: corrupt input (invalid stream header)"
      [] s.ty = "StreamHeaderMismatch" -> "snappy: corrupt input (stream header mismatch)"
      [] s.ty = "UnsupportedChunkType" -> "snappy: corrupt input (unsupported chunk type)"
      [] s.ty = "UnsupportedChunkLength" ->
            IF s.header THEN "snappy: corrupt input (invalid stream header)"
            ELSE "snappy: corrupt input (unsupported chunk length)"
      [] s.ty = "Checksum" -> "snappy: corrupt input (bad checksum)"

\* Display of snap::Error: every field is written out
SnapDisplay(s) ==
    CASE s.ty = "TooBig" ->
            <<"snappy: input buffer (size = ">> \o Dec(s.given)
                \o <<") is larger than allowed (size = ">> \o Dec(s.max) \o <<")">>
      [] s.ty = "BufferTooSmall" ->
            <<"snappy: output buffer (size = ">> \o Dec(s.given)
                \o <<") is smaller than required (size = ">> \o Dec(s.min) \o <<")">>
      [] s.ty = "Empty" -> <<"snappy: corrupt input (empty)">>
      [] s.ty = "Header" -> <<"snappy: corrupt input (invalid header)">>
      [] s.ty = "HeaderMismatch" ->
            <<"snappy: corrupt input (header mismatch; expected ">> \o Dec(s.expected_len)
                \o <<" decompressed bytes but got ">> \o Dec(s.got_len) \o <<")">>
      [] s.ty = "Literal" ->
            <<"snappy: corrupt input (expected literal read of length ">> \o Dec(s.len)
                \o <<"; remaining src: ">> \o Dec(s.src_len)
                \o <<"; remaining dst: ">> \o Dec(s.dst_len) \o <<")">>
      [] s.ty = "CopyRead" ->
            <<"snappy: corrupt input (expected copy read of length ">> \o Dec(s.len)
                \o <<"; remaining src: ">> \o Dec(s.src_len) \o <<")">>
      [] s.ty = "CopyWrite" ->
            <<"snappy: corrupt input (expected copy write of length ">> \o Dec(s.len)
                \o <<"; remaining dst: ">> \o Dec(s.dst_len) \o <<")">>
      [] s.ty = "Offset" ->
            <<"snappy: corrupt input (expected valid offset but got offset ">>
                \o Dec(s.offset) \o <<"; dst position: ">> \o Dec(s.dst_pos) \o <<")">>
      [] s.ty = "StreamHeader" ->
            <<"snappy: corrupt input (expected stream header but got chunk type byte ">>
                \o Dec(s.byte) \o <<")">>
      [] s.ty = "StreamHeaderMismatch" ->
            <<"snappy: corrupt input (expected sNaPpY stream header but got ">>
                \o DecBytes(s.bytes) \o <<")">>
      [] s.ty = "UnsupportedChunkType" ->
            <<"snappy: corrupt input (unsupported chunk type: ">> \o Dec(s.byte) \o <<")">>
      [] s.ty = "UnsupportedChunkLength" ->
            (IF s.header THEN <<"snappy: corrupt input (invalid stream header length: ">>
             ELSE <<"snappy: corrupt input (unsupported chunk length: ">>)
                \o Dec(s.len) \o <<")">>
      [] s.ty = "Checksum" ->
            <<"snappy: corrupt input (bad checksum; expected: ">> \o Dec(s.expected)
                \o <<", got: ">> \o Dec(s.got) \o <<")">>

----
\* enum Error.

PlainVariants ==
    {"UnsupportedProtocol", "UnsupportedCompression", "UnexpectedEOF", "CodecError",
     "StringDecodeError", "NoHostReachable", "NoTopicsAssigned", "InvalidDuration"}

Plain(v) == [tag |-> v]
Io(e) == [tag |-> "Io", err |-> e]
Kafka(c) == [tag |-> "Kafka", code |-> c]
TopicPartitionError(t, p, c) ==
    [tag |-> "TopicPartitionError", topic |-> t, partition |-> p, code |-> c]
Ssl(e) == [tag |-> "Ssl", err |-> e]
InvalidSnappy(e) == [tag |-> "InvalidSnappy", err |-> e]

\* Arguments the callers construct scoped faults with.
TopicChars == {"j", "\"", "\\"}
Topics == UNION {[1..n -> TopicChars] : n \in 0..MaxTopicLen}
Partitions == {0 - 1, 0, 3}
ScopedCodes == {"Unknown", "NotLeaderForPartition", "UnsupportedVersion"}

----
\* The adapters (impl From<...> for Error).

\* FromIoError without the test for UnexpectedEof.
FromIoError_NoEofTest(err) == Io(err)

FromIoError(err) ==
    IF IoKind(err) = "UnexpectedEof" THEN Plain("UnexpectedEOF") ELSE Io(err)

FromSslError(err) == Ssl(err)

FromSnapError(err) == InvalidSnappy(err)

\* clone_ioe that builds the copy with ErrorKind::Other instead of e.kind().
clone_ioe_KindOther(e) ==
    IF RawOsError(e) # <<>>
    THEN OsError(RawOsError(e)[1])
    ELSE CustomError("Other", <<"Io error: ">> \o IoDisplay(e))

\* clone_ioe that ignores the OS code and always re-describes.
clone_ioe_NoOsCode(e) == CustomError(IoKind(e), <<"Io error: ">> \o IoDisplay(e))

\* clone_ioe that copies the message without the prefix.
clone_ioe_NoPrefix(e) ==
    IF RawOsError(e) # <<>>
    THEN OsError(RawOsError(e)[1])
    ELSE CustomError(IoKind(e), IoDisplay(e))

\* Attempt to clone io::Error.
clone_ioe(e) ==
    IF RawOsError(e) # <<>>
    THEN OsError(RawOsError(e)[1])
    ELSE CustomError(IoKind(e), <<"Io error: ">> \o IoDisplay(e))

\* from_sslerror_ref with the WantWrite arm pasted from the WantRead arm.
from_sslerror_ref_Pasted(err) ==
    CASE err.ty = "ZeroReturn" -> Ssl(SslMarker("ZeroReturn"))
      [] err.ty = "WantRead" -> Ssl(SslWithIo("WantRead", clone_ioe(err.io)))
      [] err.ty = "WantWrite" -> Ssl(SslWithIo("WantRead", clone_ioe(err.io)))
      [] err.ty = "WantX509Lookup" -> Ssl(SslMarker("WantX509Lookup"))
      [] err.ty = "Stream" -> Ssl(SslWithIo("Stream", clone_ioe(err.io)))
      [] err.ty = "Ssl" -> Ssl(SslStack(err.stack))

from_sslerror_ref(err) ==
    CASE err.ty = "ZeroReturn" -> Ssl(SslMarker("ZeroReturn"))
      [] err.ty = "WantRead" -> Ssl(SslWithIo("WantRead", clone_ioe(err.io)))
      [] err.ty = "WantWrite" -> Ssl(SslWithIo("WantWrite", clone_ioe(err.io)))
      [] err.ty = "WantX509Lookup" -> Ssl(SslMarker("WantX509Lookup"))
      [] err.ty = "Stream" -> Ssl(SslWithIo("Stream", clone_ioe(err.io)))
      [] err.ty = "Ssl" -> Ssl(SslStack(err.stack))

\* FromHandshakeError that reconstructs the fault in the Failure arm too.
FromHandshakeError_AlwaysRef(err) == from_sslerror_ref(err.err)

FromHandshakeError(err) ==
    IF err.hs = "Failure" THEN FromSslError(err.err) ELSE from_sslerror_ref(err.err)

\* from_snap_error_ref with the two fields of HeaderMismatch crossed.
from_snap_error_ref_Crossed(err) ==
    IF err.ty = "HeaderMismatch"
    THEN InvalidSnappy([ty |-> "HeaderMismatch", expected_len |-> err.got_len,
                        got_len |-> err.expected_len])
    ELSE InvalidSnappy(err)

from_snap_error_ref(err) ==
    CASE err.ty = "TooBig" ->
            InvalidSnappy([ty |-> "TooBig", given |-> err.given, max |-> err.max])
      [] err.ty = "BufferTooSmall" ->
            InvalidSnappy([ty |-> "BufferTooSmall", given |-> err.given, min |-> err.min])
      [] err.ty = "Empty" -> InvalidSnappy([ty |-> "Empty"])
      [] err.ty = "Header" -> InvalidSnappy([ty |-> "Header"])
      [] err.ty = "HeaderMismatch" ->
            InvalidSnappy([ty |-> "HeaderMismatch", expected_len |-> err.expected_len,
                           got_len |-> err.got_len])
      [] err.ty = "Literal" ->
            InvalidSnappy([ty |-> "Literal", len |-> err.len, src_len |-> err.src_len,
                           dst_len |-> err.dst_len])
      [] err.ty = "CopyRead" ->
            InvalidSnappy([ty |-> "CopyRead", len |-> err.len, src_len |-> err.src_len])
      [] err.ty = "CopyWrite" ->
            InvalidSnappy([ty |-> "CopyWrite", len |-> err.len, dst_len |-> err.dst_len])
      [] err.ty = "Offset" ->
            InvalidSnappy([ty |-> "Offset", offset |-> err.offset, dst_pos |-> err.dst_pos])
      [] err.ty = "StreamHeader" ->
            InvalidSnappy([ty |-> "StreamHeader", byte |-> err.byte])
      [] err.ty = "StreamHeaderMismatch" ->
            InvalidSnappy([ty |-> "StreamHeaderMismatch", bytes |-> err.bytes])
      [] err.ty = "UnsupportedChunkType" ->
            InvalidSnappy([ty |-> "UnsupportedChunkType", byte |-> err.byte])
      [] err.ty = "UnsupportedChunkLength" ->
            InvalidSnappy([ty |-> "UnsupportedChunkLength", len |-> err.len,
                           header |-> err.header])
      [] err.ty = "Checksum" ->
            InvalidSnappy([ty |-> "Checksum", expected |-> err.expected, got |-> err.got])

\* impl Clone for Error
clone(self) ==
    CASE self.tag = "Io" -> Io(clone_ioe(self.err))
      [] self.tag = "Kafka" -> Kafka(self.code)
      [] self.tag = "TopicPartitionError" ->
            TopicPartitionError(self.topic, self.partition, self.code)
      [] self.tag = "Ssl" -> from_sslerror_ref(self.err)
      [] self.tag = "InvalidSnappy" -> from_snap_error_ref(self.err)
      [] self.tag \in PlainVariants -> Plain(self.tag)

----
\* The presentation layer.

\* description whose Kafka arm names the code, as Display does.
description_KafkaNamesCode(self) ==
    CASE self.tag = "Io" -> IoDescription(self.err)
      [] self.tag = "Kafka" -> <<"Kafka Error (", self.code, ")">>
      [] self.tag = "TopicPartitionError" -> <<"Error in request for topic and partition">>
      [] self.tag = "Ssl" -> <<SslDescription(self.err)>>
      [] self.tag = "UnsupportedProtocol" -> <<"Unsupported protocol version">>
      [] self.tag = "UnsupportedCompression" -> <<"Unsupported compression format">>
      [] self.tag = "InvalidSnappy" -> <<SnapDescription(self.err)>>
      [] self.tag = "UnexpectedEOF" -> <<"Unexpected EOF">>
      [] self.tag = "CodecError" -> <<"Encoding/Decoding error">>
      [] self.tag = "StringDecodeError" -> <<"String decoding error">>
      [] self.tag = "NoHostReachable" -> <<"No host reachable">>
      [] self.tag = "NoTopicsAssigned" -> <<"No topic assigned">>
      [] self.tag = "InvalidDuration" -> <<"Invalid duration">>

\* error::Error::description
description(self) ==
    CASE self.tag = "Io" -> IoDescription(self.err)
      [] self.tag = "Kafka" -> <<"Kafka Error">>
      [] self.tag = "TopicPartitionError" -> <<"Error in request for topic and partition">>
      [] self.tag = "Ssl" -> <<SslDescription(self.err)>>
      [] self.tag = "UnsupportedProtocol" -> <<"Unsupported protocol version">>
      [] self.tag = "UnsupportedCompression" -> <<"Unsupported compression format">>
      [] self.tag = "InvalidSnappy" -> <<SnapDescription(self.err)>>
      [] self.tag = "UnexpectedEOF" -> <<"Unexpected EOF">>
      [] self.tag = "CodecError" -> <<"Encoding/Decoding error">>
      [] self.tag = "StringDecodeError" -> <<"String decoding error">>
      [] self.tag = "NoHostReachable" -> <<"No host reachable">>
      [] self.tag = "NoTopicsAssigned" -> <<"No topic assigned">>
      [] self.tag = "InvalidDuration" -> <<"Invalid duration">>

\* The TopicPartitionError arm with the partition left out of the format string.
fmt_TopicPartitionError_NoPartition(topic, partition, error_code) ==
    <<"Topic Partition Error (">> \o DebugStr(topic) \o <<", ", error_code, ")">>

\* write!(f, "Topic Partition Error ({:?}, {:?}, {:?})", topic, partition, error_code)
fmt_TopicPartitionError(topic, partition, error_code) ==
    <<"Topic Partition Error (">> \o DebugStr(topic) \o <<", ">>
        \o Dec(partition) \o <<", ", error_code, ")">>

\* fmt::Display::fmt
fmt(self) ==
    CASE self.tag = "Io" -> IoDisplay(self.err)
      [] self.tag = "Kafka" -> <<"Kafka Error (", self.code, ")">>
      [] self.tag = "TopicPartitionError" ->
            fmt_TopicPartitionError(self.topic, self.partition, self.code)
      [] self.tag = "Ssl" -> SslDisplay(self.err)
      [] self.tag = "UnsupportedProtocol" -> <<"Unsupported protocol version">>
      [] self.tag = "UnsupportedCompression" -> <<"Unsupported compression format">>
      [] self.tag = "InvalidSnappy" -> <<"Snappy error, ">> \o SnapDisplay(self.err)
      [] self.tag = "UnexpectedEOF" -> <<"Unexpected EOF">>
      [] self.tag = "CodecError" -> <<"Encoding/Decoding Error">>
      [] self.tag = "StringDecodeError" -> <<"String decoding error">>
      [] self.tag = "NoHostReachable" -> <<"No host reachable">>
      [] self.tag = "NoTopicsAssigned" -> <<"No topic assigned">>
      [] self.tag = "InvalidDuration" -> <<"Invalid duration">>

----
\* The state machine: one value is made, then cloned, rendered, described, encoded.

Nothing == [tag |-> "Nothing"]

Init ==
    /\ via = "none"
    /\ input = Nothing
    /\ first = Nothing
    /\ cur = Nothing
    /\ prev = Nothing
    /\ nclones = 0
    /\ out = <<>>
    /\ label = <<>>
    /\ encoded = <<>>

\* the local-I/O collaborator reports a failure
AdaptIo == \E e \in IoErrors :
        /\ via = "none"
        /\ via' = "io"
        /\ input' = e
        /\ first' = FromIoError(e)
        /\ cur' = FromIoError(e)
        /\ UNCHANGED <<prev, nclones, out, label, encoded>>

\* the transport-security collaborator reports a record fault
AdaptSsl == \E e \in SslErrors :
        /\ via = "none"
        /\ via' = "ssl"
        /\ input' = e
        /\ first' = FromSslError(e)
        /\ cur' = FromSslError(e)
        /\ UNCHANGED <<prev, nclones, out, label, encoded>>

\* ... or a failed or interrupted handshake
AdaptHandshake == \E h \in HandshakeErrors :
        /\ via = "none"
        /\ via' = "handshake"
        /\ input' = h
        /\ first' = FromHandshakeError(h)
        /\ cur' = FromHandshakeError(h)
        /\ UNCHANGED <<prev, nclones, out, label, encoded>>

\* the compression codec reports a failure
AdaptSnap == \E s \in SnapErrors :
        /\ via = "none"
        /\ via' = "snap"
        /\ input' = s
        /\ first' = FromSnapError(s)
        /\ cur' = FromSnapError(s)
        /\ UNCHANGED <<prev, nclones, out, label, encoded>>

\* the protocol layer reads a status number off the wire
FromProtocol == \E n \in WireCodes :
        /\ via = "none"
        /\ via' = "protocol"
        /\ input' = <<n>>
        /\ first' = Kafka(Lookup(n))
        /\ cur' = Kafka(Lookup(n))
        /\ UNCHANGED <<prev, nclones, out, label, encoded>>

\* a scoped remote fault constructed from the request context
NewTopicPartitionError ==
    \E t \in Topics, p \in Partitions, c \in ScopedCodes :
        /\ via = "none"
        /\ via' = "scoped"
        /\ input' = <<t, p, c>>
        /\ first' = TopicPartitionError(t, p, c)
        /\ cur' = TopicPartitionError(t, p, c)
        /\ UNCHANGED <<prev, nclones, out, label, encoded>>

\* a structural, availability or input-validation fault constructed directly
NewPlain == \E v \in PlainVariants :
        /\ via = "none"
        /\ via' = "plain"
        /\ input' = <<v>>
        /\ first' = Plain(v)
        /\ cur' = Plain(v)
        /\ UNCHANGED <<prev, nclones, out, label, encoded>>

\* x.clone(): the copy replaces the value held; nothing of it is rendered yet
Clone ==
    /\ via # "none"
    /\ nclones < MaxClones
    /\ prev' = cur
    /\ cur' = clone(cur)
    /\ nclones' = nclones + 1
    /\ out' = <<>>
    /\ label' = <<>>
    /\ encoded' = <<>>
    /\ UNCHANGED <<via, input, first>>

\* format!("{}", x)
Display ==
    /\ via # "none"
    /\ out = <<>>
    /\ out' = fmt(cur)
    /\ UNCHANGED <<via, input, first, cur, prev, nclones, label, encoded>>

\* x.description()
Describe ==
    /\ via # "none"
    /\ label = <<>>
    /\ label' = description(cur)
    /\ UNCHANGED <<via, input, first, cur, prev, nclones, out, encoded>>

\* code as i16, for a value that carries a KafkaCode
Encode ==
    /\ cur.tag \in {"Kafka", "TopicPartitionError"}
    /\ encoded = <<>>
    /\ encoded' = <<Code(cur.code)>>
    /\ UNCHANGED <<via, input, first, cur, prev, nclones, out, label>>

Next ==
    \/ AdaptIo
    \/ AdaptSsl
    \/ AdaptHandshake
    \/ AdaptSnap
    \/ FromProtocol
    \/ NewTopicPartitionError
    \/ NewPlain
    \/ Clone
    \/ Display
    \/ Describe
    \/ Encode

Spec == Init /\ [][Next]_vars

----
\* Properties.

\* Values that hold an io::Error: Io, and Ssl's WantRead, WantWrite and Stream.
HasIo(x) == x.tag = "Io" \/ (x.tag = "Ssl" /\ x.err.ty \in SslIoTypes)
IoOf(x) == IF x.tag = "Io" THEN x.err ELSE x.err.io
NoOsCode(x) == HasIo(x) /\ RawOsError(IoOf(x)) = <<>>

Prefixes(n) == [i \in 1..n |-> "Io error: "]

CatalogNumbers == {Code(c) : c \in KafkaCodes}

\* One value of every shape the adapters and constructors return.
SampleErrors ==
    {Io(e) : e \in IoErrors}
        \cup {Kafka(c) : c \in KafkaCodes}
        \cup {TopicPartitionError(t, p, c) : t \in Topics, p \in Partitions, c \in ScopedCodes}
        \cup {Ssl(e) : e \in SslErrors}
        \cup {InvalidSnappy(e) : e \in SnapErrors}
        \cup {Plain(v) : v \in PlainVariants}

\* C1: the io::Error adapter returns UnexpectedEOF for an error of kind UnexpectedEof
\* and Io wrapping the very same error for every other kind, and nothing else.
C1_IoAdapter ==
    via = "io" =>
        first = (IF IoKind(input) = "UnexpectedEof"
                 THEN [tag |-> "UnexpectedEOF"]
                 ELSE [tag |-> "Io", err |-> input])

C1_Witness ==
    /\ via = "io"
    /\ input.repr = "Custom"
    /\ input.kind = "UnexpectedEof"
    /\ cur.tag = "UnexpectedEOF"

\* C2 as stated: a clone renders as its original unless the original is Io holding an
\* io::Error with no OS code.
C2_OnlyIoDiffers ==
    nclones > 0 =>
        /\ cur.tag = prev.tag
        /\ ~(prev.tag = "Io" /\ RawOsError(prev.err) = <<>>) => fmt(cur) = fmt(prev)

\* C2 amended: a clone is of its original's variant, and renders as its original unless
\* the original holds, directly (Io) or nested (Ssl WantRead, WantWrite, Stream), an
\* io::Error with no OS code.
C2_RenderAfterClone ==
    nclones > 0 =>
        /\ cur.tag = prev.tag
        /\ ~NoOsCode(prev) => fmt(cur) = fmt(prev)

C2_Witness ==
    /\ nclones > 0
    /\ prev.tag = "Ssl"
    /\ prev.err.ty = "Stream"
    /\ RawOsError(prev.err.io) # <<>>
    /\ fmt(cur) = fmt(prev)

\* C3 as stated: the clone of Io(e) with no OS code has the message "I/O error: "
\* followed by e's message.
C3_IOSlashPrefix ==
    (nclones > 0 /\ prev.tag = "Io") =>
        cur = [tag |-> "Io",
               err |-> IF prev.err.repr = "Os"
                       THEN [repr |-> "Os", os |-> prev.err.os]
                       ELSE [repr |-> "Custom", kind |-> IoKind(prev.err),
                             msg |-> <<"I/O error: ">> \o IoDisplay(prev.err)]]

\* C3 amended: the clone of Io(e) wraps an io::Error built from e's OS code when e has
\* one, and otherwise one of e's kind whose message is "Io error: " followed by e's
\* rendering.
C3_CloneIo ==
    (nclones > 0 /\ prev.tag = "Io") =>
        cur = [tag |-> "Io",
               err |-> IF prev.err.repr = "Os"
                       THEN [repr |-> "Os", os |-> prev.err.os]
                       ELSE [repr |-> "Custom", kind |-> IoKind(prev.err),
                             msg |-> <<"Io error: ">> \o IoDisplay(prev.err)]]

C3_Witness ==
    /\ nclones > 0
    /\ prev.tag = "Io"
    /\ prev.err.repr = "Simple"
    /\ cur.err.repr = "Custom"
    /\ cur.err.kind = "ConnectionReset"

\* C4 as stated: the label of TopicPartitionError(T, P, C) is the fixed text, and its
\* rendering contains T, P and the name of C.
C4_ContainsTopic ==
    via = "scoped" =>
        /\ label # <<>> => label = <<"Error in request for topic and partition">>
        /\ out # <<>> =>
            /\ Contains(out, input[1])
            /\ Contains(out, Dec(input[2]))
            /\ Contains(out, <<input[3]>>)

\* C4 amended: the label is the fixed text, and the rendering contains P, the name of C
\* and T as {:?} writes it (quoted, with quotes and backslashes escaped): T itself
\* whenever T has no character that is escaped.
C4_ContainsEscapedTopic ==
    via = "scoped" =>
        /\ label # <<>> => label = <<"Error in request for topic and partition">>
        /\ out # <<>> =>
            /\ Contains(out, <<"\"">> \o EscapeStr(input[1]) \o <<"\"">>)
            /\ (\A i \in 1..Len(input[1]) : input[1][i] \notin {"\"", "\\"})
                    => Contains(out, input[1])
            /\ Contains(out, Dec(input[2]))
            /\ Contains(out, <<input[3]>>)

C4_Witness ==
    /\ via = "scoped"
    /\ label # <<>>
    /\ out # <<>>
    /\ input[1] = <<"j", "\"">>
    /\ input[2] < 0
    /\ ~Contains(out, input[1])

\* C5: casting a KafkaCode to its number and looking the number up gives the same
\* KafkaCode; the numbers are -1 and 1..35; a number outside the catalog looks up to
\* Unknown, whose number is -1.
C5_RoundTrip ==
    /\ encoded # <<>> => Lookup(encoded[1]) = cur.code
    /\ CatalogNumbers = {-1} \cup 1..35
    /\ (via = "protocol" /\ input[1] \notin CatalogNumbers) =>
            (first = [tag |-> "Kafka", code |-> "Unknown"] /\ Code(first.code) = -1)

C5_Witness ==
    /\ via = "protocol"
    /\ input = <<35>>
    /\ encoded = <<35>>
    /\ cur.code = "UnsupportedVersion"

\* C6 as stated: two Error values of the same variant have the same label.
C6_LabelByVariant ==
    label # <<>> => \A y \in SampleErrors : y.tag = cur.tag => description(y) = label

\* C6 amended: two values of the same variant have the same label when the variant is
\* Kafka, TopicPartitionError or parameterless; the label of Io, Ssl and InvalidSnappy
\* is the description of the error they wrap.
C6_LabelByVariantOrPayload ==
    label # <<>> =>
        /\ cur.tag \notin {"Io", "Ssl", "InvalidSnappy"} =>
                \A y \in SampleErrors : y.tag = cur.tag => description(y) = label
        /\ cur.tag = "Io" => label = IoDescription(cur.err)
        /\ cur.tag = "Ssl" => label = <<SslDescription(cur.err)>>
        /\ cur.tag = "InvalidSnappy" => label = <<SnapDescription(cur.err)>>

C6_Witness ==
    /\ label # <<>>
    /\ cur.tag = "Kafka"
    /\ cur.code = "NotLeaderForPartition"

\* C7 as stated: a handshake failure becomes Ssl wrapping the fault itself, equal in
\* every nested field, for Failure and for Interrupted.
C7_FaultUnchanged == via = "handshake" => first = [tag |-> "Ssl", err |-> input.err]

\* C7 amended: a handshake failure becomes Ssl; Failure(e) wraps e unchanged;
\* Interrupted(s) wraps a reconstruction of s's fault: the same subtype, an error stack
\* copied, a nested io::Error with an OS code rebuilt from the code, and a nested
\* io::Error without one replaced by one of the same kind whose message is
\* "Io error: " followed by the original's rendering.
C7_HandshakeAdapter ==
    via = "handshake" =>
        /\ first.tag = "Ssl"
        /\ input.hs = "Failure" => first.err = input.err
        /\ input.hs = "Interrupted" =>
            /\ first.err.ty = input.err.ty
            /\ input.err.ty = "Ssl" => first.err.stack = input.err.stack
            /\ input.err.ty \in SslIoTypes =>
                /\ IoKind(first.err.io) = IoKind(input.err.io)
                /\ RawOsError(first.err.io) = RawOsError(input.err.io)
                /\ RawOsError(input.err.io) = <<>> =>
                        IoDisplay(first.err.io) = <<"Io error: ">> \o IoDisplay(input.err.io)

C7_Witness ==
    /\ via = "handshake"
    /\ input.hs = "Interrupted"
    /\ input.err.ty = "WantRead"
    /\ input.err.io.repr = "Custom"
    /\ first.err.ty = "WantRead"

\* C8: the snap::Error adapter returns InvalidSnappy carrying the error with every
\* field unchanged, and so does every clone of it.
C8_SnapLossless ==
    via = "snap" =>
        /\ first = [tag |-> "InvalidSnappy", err |-> input]
        /\ cur = [tag |-> "InvalidSnappy", err |-> input]

C8_Witness ==
    /\ via = "snap"
    /\ nclones >= 2
    /\ input = [ty |-> "HeaderMismatch", expected_len |-> 12, got_len |-> 9]
    /\ cur.err.expected_len = 12
    /\ cur.err.got_len = 9

\* C9: after the io::Error adapter and any number of clones the value has the variant
\* the adapter chose, and an Io value wraps an io::Error of the kind and OS code (or
\* absence of one) of the error adapted; no Io value has kind UnexpectedEof.
C9_CloneKeepsKindAndCode ==
    via = "io" =>
        /\ cur.tag = (IF IoKind(input) = "UnexpectedEof" THEN "UnexpectedEOF" ELSE "Io")
        /\ cur.tag = "Io" =>
            /\ IoKind(cur.err) = IoKind(input)
            /\ RawOsError(cur.err) = RawOsError(input)
            /\ IoKind(cur.err) # "UnexpectedEof"

C9_Witness ==
    /\ via = "io"
    /\ nclones >= 2
    /\ cur.tag = "Io"
    /\ input.repr = "Os"
    /\ cur.err.repr = "Os"

\* C10: each clone of a value holding an io::Error without an OS code puts one
\* "Io error: " before that error's message, so n clones put n; a value holding an
\* io::Error with an OS code renders the same after any number of clones.
C10_OnePrefixPerClone ==
    (via # "none" /\ HasIo(cur)) =>
        /\ nclones > 0 =>
                (IF NoOsCode(prev)
                 THEN IoDisplay(IoOf(cur)) = <<"Io error: ">> \o IoDisplay(IoOf(prev))
                 ELSE fmt(cur) = fmt(prev))
        /\ IF NoOsCode(first)
           THEN IoDisplay(IoOf(cur)) = Prefixes(nclones) \o IoDisplay(IoOf(first))
           ELSE fmt(cur) = fmt(first)

C10_Witness ==
    /\ nclones = 3
    /\ cur.tag = "Ssl"
    /\ cur.err.ty = "WantWrite"
    /\ first.err.io.repr = "Simple"
    /\ IoDisplay(cur.err.io) =
            <<"Io error: ", "Io error: ", "Io error: ">> \o IoDisplay(first.err.io)

====
